---- MODULE Spec2Model ----
(***************************************************************************)
(* FourierAnalyzer (src/src/analyzer/FourierAnalyzer.cpp): power spectrum  *)
(* of a 2D point set by direct Fourier summation, running mean over        *)
(* trials, radial reduction.                                               *)
(*                                                                         *)
(* Numbers.  A float/double value is modelled by the exact rational it     *)
(* stands for, <<n, d>> in lowest terms with d > 0, and by the IEEE        *)
(* specials NaN = <<0,0>>, +Inf = <<1,0>>, -Inf = <<-1,0>>.  Rounding is   *)
(* not modelled.  Point coordinates are multiples of 1/4 (a point is       *)
(* <<4x, 4y>>) and the frequency step is an integer, so every phase is a   *)
(* whole number of quarter turns and cos/sin take the values -1, 0, 1.     *)
(* The 512 x 512 grid is scaled down to Res x Res, the grain 16 of the     *)
(* parallel_for to Grain.  RunAnalysis runs with the frequency step the    *)
(* constructor starts from; the parallel_for model draws it.               *)
(***************************************************************************)
EXTENDS Integers, Sequences, FiniteSets, TLC

VARIABLES
    \* configuration (constructor, lines 33-49)
    nSamples, nTrials, trialStepOut, frequencyStep, xRes, yRes,
    \* member buffers
    pts, complexSpectrum, powerSpectrum,
    \* RunAnalysis locals and position
    pc, j, trial, powerAccum,
    \* what the output sink received last, and how often per trial
    snapshot, emitCount,
    \* history: sum of the per-trial power spectra of the current sample
    \* count, and the spectrum the trial at its output step has added
    \* to the accumulator
    trialSum, lastAdded,
    \* parallel_for of continuous_fourier_spectrum: tiles not yet run, and
    \* for every array index the tiles whose task wrote it
    pending, writers, ptsAtFork,
    \* compute_radial_mean_powerspectrum: position, locals, outcome
    rpc, ridx, radialHistogram, histoCounter, binsOf, divisors, fileOut, exitCode

cfgVars    == <<nSamples, nTrials, trialStepOut, frequencyStep, xRes, yRes>>
bufVars    == <<pts, complexSpectrum, powerSpectrum>>
runVars    == <<pc, j, trial, powerAccum>>
outVars    == <<snapshot, emitCount>>
histVars   == <<trialSum, lastAdded>>
tileVars   == <<pending, writers, ptsAtFork>>
radialVars == <<rpc, ridx, radialHistogram, histoCounter, binsOf, divisors, fileOut, exitCode>>
vars == <<cfgVars, bufVars, runVars, outVars, histVars, tileVars, radialVars>>

----------------------------------------------------------------------------
\* Bounds of the model
Res         == 2   \* grid resolution of RunAnalysis (512 in the program)
MaxRes      == 4   \* largest grid handed to the radial reducer
MaxTileRes  == 3   \* largest grid of the parallel_for model
MaxN        == 2   \* largest sample count
MaxCounts   == 2   \* longest list of sample counts
MaxTrials   == 3   \* largest nTrials
MaxStep     == 2   \* largest trialStepOut
MaxFreqStep == 2   \* largest frequency step of the parallel_for model

\* Program constants
Grain       == 1   \* grain size of blocked_range2d (16 in the program)
EdgeBins    == 5   \* outer bins left out of the radial table
DefaultFrequencyStep == 1   \* _frequencyStep(1.0)
ExitNonSquare == -2

\* The positions a sampler may return, in quarter units: (0,0) and (1/4,1/2)
Positions == {<<0, 0>>, <<1, 2>>}

----------------------------------------------------------------------------
\* Floating-point values as exact rationals with the IEEE specials

Abs(x) == IF x < 0 THEN -x ELSE x

Sign(x) == IF x < 0 THEN -1 ELSE IF x > 0 THEN 1 ELSE 0

RECURSIVE Gcd(_, _)
Gcd(a, b) == IF b = 0 THEN a ELSE Gcd(b, a % b)

Norm(n, d) ==
    IF d = 0 THEN <<Sign(n), 0>>
    ELSE LET g == Gcd(Abs(n), Abs(d))
             s == Sign(d)
         IN  <<(s * n) \div g, (s * d) \div g>>

NaN == <<0, 0>>
Zero == <<0, 1>>
FromInt(i) == <<i, 1>>
IsNaN(a) == a = NaN
IsFinite(a) == a[2] # 0

\* a + b in IEEE arithmetic
FAdd(a, b) ==
    IF IsNaN(a) \/ IsNaN(b) THEN NaN
    ELSE IF ~IsFinite(a) /\ ~IsFinite(b) THEN (IF a = b THEN a ELSE NaN)
    ELSE IF ~IsFinite(a) THEN a
    ELSE IF ~IsFinite(b) THEN b
    ELSE Norm(a[1] * b[2] + b[1] * a[2], a[2] * b[2])

\* a / b in IEEE arithmetic: 0/0 and Inf/Inf are NaN, x/0 is +-Inf
FDiv(a, b) ==
    IF IsNaN(a) \/ IsNaN(b) THEN NaN
    ELSE IF ~IsFinite(a) /\ ~IsFinite(b) THEN NaN
    ELSE IF ~IsFinite(a) THEN <<a[1] * (IF b[1] < 0 THEN -1 ELSE 1), 0>>
    ELSE IF ~IsFinite(b) THEN Zero
    ELSE Norm(a[1] * b[2], a[2] * b[1])

\* cos(-2 pi q / 4) and sin(-2 pi q / 4) for a whole number q of quarter turns
CosQuarter(q) == CASE q % 4 = 0 -> 1 [] q % 4 = 1 -> 0 [] q % 4 = 2 -> -1 [] OTHER -> 0

SinQuarter(q) == CASE q % 4 = 0 -> 0 [] q % 4 = 1 -> -1 [] q % 4 = 2 -> 0 [] OTHER -> 1

\* new T[n](): n value-initialised cells, indexed from 0
NewArray(n, v) == [i \in 0 .. (n - 1) |-> v]

\* int(x * 0.5) for x >= 0
Half(x) == x \div 2

----------------------------------------------------------------------------
\* continuous_fourier_spectrum (lines 51-81)

\* lines 64-72: the sums fx, fy of one cell over the points i..npoints
RECURSIVE SumPoints(_, _, _, _)
SumPoints(p, i, wx, wy) ==
    IF i > Len(p) THEN <<0, 0>>
    ELSE LET q    == wx * p[i][1] + wy * p[i][2]
             rest == SumPoints(p, i + 1, wx, wy)
         IN  <<CosQuarter(q) + rest[1], SinQuarter(q) + rest[2]>>

\* lines 64-75: the value stored for (row, col)
FourierCell(p, row, col, xr, yr, step) ==
    SumPoints(p, 1, (col - Half(xr)) * step, (row - Half(yr)) * step)

\* the index without the row stride
CellIndexNoStride(row, col, xr) == row + col

\* line 74: the array index of (row, col)
CellIndex(row, col, xr) == row * xr + col

\* A tile of blocked_range2d: rows r0..r1-1, cols c0..c1-1
Tile(r0, r1, c0, c1) == [r0 |-> r0, r1 |-> r1, c0 |-> c0, c1 |-> c1]

TileCells(t) == (t.r0 .. (t.r1 - 1)) \X (t.c0 .. (t.c1 - 1))

\* line 60: the whole range, rows 0.._xRes and cols 0.._yRes
WholeRange(xr, yr) == Tile(0, xr, 0, yr)

\* the body adding its sums to what the cell held before
RunBodyCarry(cs, t, p, xr, yr, step) ==
    [i \in DOMAIN cs |->
        IF \E rc \in (t.r0 .. (t.r1 - 1)) \X (t.c0 .. (t.c1 - 1)) : rc[1] * xr + rc[2] = i
        THEN LET rc == CHOOSE rc \in (t.r0 .. (t.r1 - 1)) \X (t.c0 .. (t.c1 - 1)) :
                           rc[1] * xr + rc[2] = i
                 z  == FourierCell(p, rc[1], rc[2], xr, yr, step)
             IN  <<cs[i][1] + z[1], cs[i][2] + z[2]>>
        ELSE cs[i]]

\* lines 61-78: the body run on one tile writes the cells of the tile
RunBody(cs, t, p, xr, yr, step) ==
    LET cells == TileCells(t)
        at    == [rc \in cells |-> CellIndex(rc[1], rc[2], xr)]
        W     == {at[rc] : rc \in cells}
    IN  [i \in DOMAIN cs |->
            IF i \in W
            THEN LET rc == CHOOSE rc \in cells : at[rc] = i
                 IN  FourierCell(p, rc[1], rc[2], xr, yr, step)
            ELSE cs[i]]

----------------------------------------------------------------------------
\* power_fourier_spectrum (lines 83-94)

\* line 90: (real*real + imag*imag) / _pts.size()
PowerVal(z, npoints) == FDiv(FromInt(z[1] * z[1] + z[2] * z[2]), FromInt(npoints))

\* lines 85-93: every (r, c) with r < _yRes, c < _xRes, at index r*_xRes+c
PowerOfSpectrum(cs, ps, p, xr, yr) ==
    LET W == {CellIndex(r, c, xr) : r \in 0 .. (yr - 1), c \in 0 .. (xr - 1)}
    IN  [i \in DOMAIN ps |-> IF i \in W THEN PowerVal(cs[i], Len(p)) ELSE ps[i]]

----------------------------------------------------------------------------
\* compute_radial_mean_powerspectrum (lines 96-139)

\* the square check left out
NotSquareUnchecked(xr, yr) == FALSE

\* line 99: _xRes != _yRes
NotSquare(xr, yr) == xr # yr

\* int(sqrt(n)) for n >= 0
Isqrt(n) == CHOOSE k \in 0 .. n : k * k <= n /\ n < (k + 1) * (k + 1)

\* lines 112-114: the square of the distance of (r, c) from the centre
Dist2(r, c, hw) == (hw - c) * (hw - c) + (hw - r) * (hw - r)

\* the test with >= in place of >
RadialSkipsInclusive(r, c, hw) == hw - 1 < 0 \/ (hw - c) * (hw - c) + (hw - r) * (hw - r) >= (hw - 1) * (hw - 1)

\* line 118: distance > halfwidth-1, on the untruncated distance
RadialSkips(r, c, hw) == hw - 1 < 0 \/ Dist2(r, c, hw) > (hw - 1) * (hw - 1)

\* line 117: int index = distance
RadialIndex(r, c, hw) == Isqrt(Dist2(r, c, hw))

\* line 122: the increment of the bin's counter
CountUp(n) == n + 1

\* the iteration counting a cell before the range test
RadialCellCountsAll(hc, power, r, c, xr) ==
    LET hw == xr \div 2
        d2 == (hw - c) * (hw - c) + (hw - r) * (hw - r)
        b  == CHOOSE k \in 0 .. d2 : k * k <= d2 /\ d2 < (k + 1) * (k + 1)
        n  == [i \in DOMAIN hc[2] |-> IF i = b THEN hc[2][i] + 1 ELSE hc[2][i]]
    IN  IF hw - 1 < 0 \/ d2 > (hw - 1) * (hw - 1) THEN <<hc[1], n>>
        ELSE <<[hc[1] EXCEPT ![b] = FAdd(@, power[r * xr + c])], n>>

\* lines 112-123: one iteration of the cell loop on <<histogram, counter>>
RadialCell(hc, power, r, c, xr) ==
    LET hw == Half(xr)
        b  == RadialIndex(r, c, hw)
    IN  IF RadialSkips(r, c, hw) THEN hc
        ELSE <<[hc[1] EXCEPT ![b] = FAdd(@, power[CellIndex(r, c, xr)])],
               [hc[2] EXCEPT ![b] = CountUp(@)]>>

\* lines 110-125: the cell loop from cell number k (row-major) to the end
RECURSIVE RadialLoop(_, _, _, _, _)
RadialLoop(hc, power, k, xr, yr) ==
    IF k >= xr * yr THEN hc
    ELSE RadialLoop(RadialCell(hc, power, k \div xr, k % xr, xr), power, k + 1, xr, yr)

\* line 128: radialHistogram[i] /= double(histoCounter[i])
RadialDivide(h, n) == FDiv(h, FromInt(n))

\* lines 133-134: the lines of the table, bins 0 .. halfwidth-6
RadialTable(h, hw) == [i \in 0 .. (hw - EdgeBins - 1) |-> h[i]]

\* lines 104-135 on a square grid: the table written to the file
RadialMeanTable(power, xr, yr) ==
    LET hw == Half(xr)
        hc == RadialLoop(<<NewArray(hw, Zero), NewArray(hw, 0)>>, power, 0, xr, yr)
    IN  RadialTable([i \in 0 .. (hw - 1) |-> RadialDivide(hc[1][i], hc[2][i])], hw)

----------------------------------------------------------------------------
\* The parts of the state an operation does not use

NoArray == NewArray(0, 0)

NoSnapshot == [n |-> 0, trial |-> 0, image |-> NoArray, table |-> NoArray]

NoFile == [open |-> FALSE, lines |-> NoArray]

NoExit == 0

IdleRun ==
    /\ nSamples = <<>> /\ nTrials = 1 /\ trialStepOut = 1
    /\ j = 0 /\ trial = 0 /\ powerAccum = NoArray
    /\ snapshot = NoSnapshot /\ emitCount = NoArray /\ trialSum = NoArray
    /\ lastAdded = NoArray

IdleTiles == pending = {} /\ writers = NoArray /\ ptsAtFork = <<>>

IdleRadial ==
    /\ rpc = "idle" /\ ridx = 0
    /\ radialHistogram = NoArray /\ histoCounter = NoArray
    /\ binsOf = NoArray /\ divisors = <<>>
    /\ fileOut = NoFile /\ exitCode = NoExit

\* Sampler::Sample(_pts, n) (line 156): the n points it may return
SampleSets(n) == [1 .. n -> Positions]

----------------------------------------------------------------------------
\* RunAnalysis (lines 142-207)

\* the condition without its first disjunct
SnapshotDueNoFirst(t, step) == t % step = 0

\* line 177: trial == 1 || trial % _trialStepOut == 0
SnapshotDue(t, step) == t = 1 \/ t % step = 0

\* line 169: powerAccum[index] += _powerSpectrum[index]
AddPower(acc, ps) == [i \in DOMAIN acc |-> FAdd(acc[i], ps[i])]

\* line 181: powerAccum[index] / float(trial)
MeanPower(acc, t) == [i \in DOMAIN acc |-> FDiv(acc[i], FromInt(t))]

\* constructor, lines 33-49
Init ==
    /\ nSamples \in UNION {[1 .. k -> 0 .. MaxN] : k \in 1 .. MaxCounts}
    /\ nTrials \in 1 .. MaxTrials
    /\ trialStepOut \in 1 .. MaxStep
    /\ frequencyStep = DefaultFrequencyStep
    /\ xRes = Res /\ yRes = Res
    /\ pts = <<>>
    /\ complexSpectrum = NewArray(Res * Res, <<0, 0>>)
    /\ powerSpectrum = NewArray(Res * Res, Zero)
    /\ pc = "start" /\ j = 0 /\ trial = 0 /\ powerAccum = NoArray
    /\ snapshot = NoSnapshot /\ emitCount = NoArray /\ trialSum = NoArray
    /\ lastAdded = NoArray
    /\ IdleTiles /\ IdleRadial

\* lines 147-153: allocate the accumulator, enter both loops
RunAnalysis ==
    /\ pc = "start"
    /\ powerAccum' = NewArray(xRes * yRes, Zero)
    /\ j' = 1 /\ trial' = 1
    /\ pc' = IF 1 <= Len(nSamples) THEN "trial" ELSE "done"
    /\ trialSum' = NewArray(xRes * yRes, Zero)
    /\ emitCount' = [t \in 1 .. nTrials |-> 0]
    /\ UNCHANGED <<cfgVars, bufVars, snapshot, lastAdded, tileVars, radialVars>>

\* lines 153-161: a trial begins: new points, _powerSpectrum cleared
SampleTrial ==
    /\ pc = "trial" /\ trial <= nTrials
    /\ \E s \in SampleSets(nSamples[j]) : pts' = s
    /\ powerSpectrum' = [i \in DOMAIN powerSpectrum |->
                            IF i < xRes * yRes THEN Zero ELSE powerSpectrum[i]]
    /\ pc' = "transform"
    /\ UNCHANGED <<cfgVars, complexSpectrum, j, trial, powerAccum, outVars, histVars,
                   tileVars, radialVars>>

\* line 163: the parallel_for has returned
continuous_fourier_spectrum ==
    /\ pc = "transform"
    /\ complexSpectrum' = RunBody(complexSpectrum, WholeRange(xRes, yRes), pts,
                                  xRes, yRes, frequencyStep)
    /\ pc' = "power"
    /\ UNCHANGED <<cfgVars, pts, powerSpectrum, j, trial, powerAccum, outVars, histVars,
                   tileVars, radialVars>>

\* line 164
power_fourier_spectrum ==
    /\ pc = "power"
    /\ powerSpectrum' = PowerOfSpectrum(complexSpectrum, powerSpectrum, pts, xRes, yRes)
    /\ pc' = "accumulate"
    /\ UNCHANGED <<cfgVars, pts, complexSpectrum, j, trial, powerAccum, outVars, histVars,
                   tileVars, radialVars>>

\* lines 166-171
Accumulate ==
    /\ pc = "accumulate"
    /\ lastAdded' = powerSpectrum
    /\ powerAccum' = AddPower(powerAccum, lastAdded')
    /\ trialSum' = [i \in DOMAIN trialSum |-> FAdd(trialSum[i], powerSpectrum[i])]
    /\ pc' = "output"
    /\ UNCHANGED <<cfgVars, bufVars, j, trial, outVars, tileVars, radialVars>>

\* lines 177-202, condition true: the mean replaces _powerSpectrum and is
\* written as image and as radial table; then ++trial
EmitSnapshot ==
    /\ pc = "output" /\ SnapshotDue(trial, trialStepOut)
    /\ powerSpectrum' = MeanPower(powerAccum, trial)
    /\ IF NotSquare(xRes, yRes)
       THEN /\ pc' = "exit" /\ exitCode' = ExitNonSquare
            /\ snapshot' = [n |-> nSamples[j], trial |-> trial,
                            image |-> powerSpectrum', table |-> NoArray]
       ELSE /\ pc' = "trial" /\ exitCode' = exitCode
            /\ snapshot' = [n |-> nSamples[j], trial |-> trial,
                            image |-> powerSpectrum',
                            table |-> RadialMeanTable(powerSpectrum', xRes, yRes)]
    /\ emitCount' = [emitCount EXCEPT ![trial] = @ + 1]
    /\ trial' = trial + 1
    /\ lastAdded' = NoArray
    /\ UNCHANGED <<cfgVars, pts, complexSpectrum, j, powerAccum, trialSum, tileVars,
                   rpc, ridx, radialHistogram, histoCounter, binsOf, divisors, fileOut>>

\* lines 177-203, condition false: ++trial
SkipSnapshot ==
    /\ pc = "output" /\ ~SnapshotDue(trial, trialStepOut)
    /\ trial' = trial + 1
    /\ pc' = "trial"
    /\ lastAdded' = NoArray
    /\ UNCHANGED <<cfgVars, bufVars, j, powerAccum, outVars, trialSum, tileVars, radialVars>>

\* lines 149-153, 205: the trials of one sample count are over
NextSampleCount ==
    /\ pc = "trial" /\ trial > nTrials
    /\ IF j < Len(nSamples)
       THEN /\ j' = j + 1 /\ trial' = 1 /\ pc' = "trial"
            /\ powerAccum' = powerAccum
            /\ trialSum' = NewArray(xRes * yRes, Zero)
            /\ emitCount' = [t \in 1 .. nTrials |-> 0]
       ELSE /\ j' = j + 1 /\ trial' = trial /\ pc' = "done"
            /\ powerAccum' = NoArray
            /\ UNCHANGED <<trialSum, emitCount>>
    /\ UNCHANGED <<cfgVars, bufVars, snapshot, lastAdded, tileVars, radialVars>>

Next ==
    \/ RunAnalysis
    \/ SampleTrial
    \/ continuous_fourier_spectrum
    \/ power_fourier_spectrum
    \/ Accumulate
    \/ EmitSnapshot
    \/ SkipSnapshot
    \/ NextSampleCount

Spec == Init /\ [][Next]_vars

----------------------------------------------------------------------------
\* The parallel_for of continuous_fourier_spectrum (lines 59-79), task by
\* task.  blocked_range2d is split by recursive bisection while a side is
\* longer than its grain; the partitioner decides when to stop splitting.

Rows(t) == t.r1 - t.r0

Cols(t) == t.c1 - t.c0

\* blocked_range2d::is_divisible
Divisible(t) == Rows(t) > Grain \/ Cols(t) > Grain

\* blocked_range::do_split: the middle of begin..end
Middle(b, e) == b + (e - b) \div 2

\* blocked_range2d::do_split: the two halves of a tile
SplitOf(t) ==
    IF Rows(t) * Grain < Cols(t) * Grain
    THEN {Tile(t.r0, t.r1, t.c0, Middle(t.c0, t.c1)), Tile(t.r0, t.r1, Middle(t.c0, t.c1), t.c1)}
    ELSE {Tile(t.r0, Middle(t.r0, t.r1), t.c0, t.c1), Tile(Middle(t.r0, t.r1), t.r1, t.c0, t.c1)}

\* the array indices the body writes when run on tile t (lines 74-75)
Written(t, xr) == {CellIndex(rc[1], rc[2], xr) : rc \in TileCells(t)}

InitTiles ==
    /\ xRes \in 1 .. MaxTileRes /\ yRes = xRes
    /\ frequencyStep \in 1 .. MaxFreqStep
    /\ pts \in UNION {SampleSets(n) : n \in 0 .. MaxN}
    /\ complexSpectrum = NewArray(xRes * yRes, <<0, 0>>)
    /\ powerSpectrum = NewArray(xRes * yRes, Zero)
    /\ pc = "call"
    /\ IdleRun /\ IdleTiles /\ IdleRadial

\* lines 59-60: the range handed to parallel_for
Fork ==
    /\ pc = "call"
    /\ pending' = {WholeRange(xRes, yRes)}
    /\ writers' = NewArray(xRes * yRes, <<>>)
    /\ ptsAtFork' = pts
    /\ pc' = "parallel"
    /\ UNCHANGED <<cfgVars, bufVars, j, trial, powerAccum, outVars, histVars, radialVars>>

SplitTile ==
    /\ pc = "parallel"
    /\ \E t \in pending :
         /\ Divisible(t)
         /\ pending' = (pending \ {t}) \cup SplitOf(t)
    /\ UNCHANGED <<cfgVars, bufVars, runVars, outVars, histVars, writers, ptsAtFork,
                   radialVars>>

\* lines 61-78: one task runs the body on its tile
RunTile ==
    /\ pc = "parallel"
    /\ \E t \in pending :
         /\ complexSpectrum' = RunBody(complexSpectrum, t, pts, xRes, yRes, frequencyStep)
         /\ writers' = [i \in DOMAIN writers |->
                           IF i \in Written(t, xRes) THEN Append(writers[i], t)
                           ELSE writers[i]]
         /\ pending' = pending \ {t}
    /\ UNCHANGED <<cfgVars, pts, powerSpectrum, runVars, outVars, histVars, ptsAtFork,
                   radialVars>>

\* line 79: parallel_for returns when every task has run
Join ==
    /\ pc = "parallel" /\ pending = {}
    /\ pc' = "joined"
    /\ UNCHANGED <<cfgVars, bufVars, j, trial, powerAccum, outVars, histVars, tileVars,
                   radialVars>>

NextTiles == Fork \/ SplitTile \/ RunTile \/ Join

SpecTiles == InitTiles /\ [][NextTiles]_vars

----------------------------------------------------------------------------
\* compute_radial_mean_powerspectrum (lines 96-139), step by step

\* the power spectra handed to the reducer: constant ones and two that vary
RadialInputs(n) ==
    {NewArray(n, v) : v \in {Zero, FromInt(1), <<1, 2>>, FromInt(3), NaN}}
        \cup {[i \in 0 .. (n - 1) |-> FromInt(i)], [i \in 0 .. (n - 1) |-> <<i % 2, 2>>]}

InitRadial ==
    /\ xRes \in 1 .. MaxRes /\ yRes \in 1 .. MaxRes
    /\ frequencyStep = DefaultFrequencyStep
    /\ pts = <<>>
    /\ complexSpectrum = NewArray(xRes * yRes, <<0, 0>>)
    /\ powerSpectrum \in RadialInputs(xRes * yRes)
    /\ pc = "idle"
    /\ IdleRun /\ IdleTiles
    /\ rpc = "enter" /\ ridx = 0
    /\ radialHistogram = NoArray /\ histoCounter = NoArray
    /\ binsOf = NoArray /\ divisors = <<>>
    /\ fileOut = NoFile /\ exitCode = NoExit

\* lines 99-109: the square check, then the two arrays
RadialEnter ==
    /\ rpc = "enter"
    /\ IF NotSquare(xRes, yRes)
       THEN /\ rpc' = "exit" /\ exitCode' = ExitNonSquare
            /\ UNCHANGED <<ridx, radialHistogram, histoCounter, binsOf>>
       ELSE /\ rpc' = "cells" /\ exitCode' = exitCode
            /\ ridx' = 0
            /\ radialHistogram' = NewArray(Half(xRes), Zero)
            /\ histoCounter' = NewArray(Half(xRes), 0)
            /\ binsOf' = NewArray(xRes * yRes, {})
    /\ UNCHANGED <<cfgVars, bufVars, runVars, outVars, histVars, tileVars, divisors, fileOut>>

\* lines 110-125: the iteration for cell number ridx (row-major)
RadialCellStep ==
    /\ rpc = "cells"
    /\ LET hc == RadialCell(<<radialHistogram, histoCounter>>, powerSpectrum,
                            ridx \div xRes, ridx % xRes, xRes)
       IN  /\ radialHistogram' = hc[1]
           /\ histoCounter' = hc[2]
           /\ binsOf' = [binsOf EXCEPT ![ridx] =
                            {b \in DOMAIN histoCounter : hc[2][b] # histoCounter[b]}]
    /\ IF ridx + 1 < xRes * yRes
       THEN ridx' = ridx + 1 /\ rpc' = "cells"
       ELSE ridx' = 0 /\ rpc' = "divide"
    /\ UNCHANGED <<cfgVars, bufVars, runVars, outVars, histVars, tileVars, divisors, fileOut,
                   exitCode>>

\* lines 127-128: the division of bin ridx
RadialDivideStep ==
    /\ rpc = "divide" /\ ridx < Half(xRes)
    /\ radialHistogram' = [radialHistogram EXCEPT
                              ![ridx] = RadialDivide(@, histoCounter[ridx])]
    /\ divisors' = Append(divisors, histoCounter[ridx])
    /\ ridx' = ridx + 1
    /\ UNCHANGED <<cfgVars, bufVars, runVars, outVars, histVars, tileVars, rpc, histoCounter,
                   binsOf, fileOut, exitCode>>

\* lines 130-138: the table is written, the arrays are freed
RadialWrite ==
    /\ rpc = "divide" /\ ridx >= Half(xRes)
    /\ fileOut' = [open |-> TRUE, lines |-> RadialTable(radialHistogram, Half(xRes))]
    /\ radialHistogram' = NoArray /\ histoCounter' = NoArray
    /\ rpc' = "done"
    /\ UNCHANGED <<cfgVars, bufVars, runVars, outVars, histVars, tileVars, ridx, binsOf,
                   divisors, exitCode>>

NextRadial == RadialEnter \/ RadialCellStep \/ RadialDivideStep \/ RadialWrite

SpecRadial == InitRadial /\ [][NextRadial]_vars

----------------------------------------------------------------------------
\* Properties of RunAnalysis (Spec)

\* the power spectrum of a point set computed on fresh buffers
FreshPower(p) ==
    PowerOfSpectrum(RunBody(NewArray(xRes * yRes, <<0, 0>>), WholeRange(xRes, yRes), p,
                            xRes, yRes, frequencyStep),
                    NewArray(xRes * yRes, Zero), p, xRes, yRes)

\* every configured sample count is at least 1 (no trial has an empty point set)
NoEmptySampleCount == \A k \in 1 .. Len(nSamples) : nSamples[k] >= 1

\* C1: the mean just emitted at trial k equals, cell by cell, the sum of the
\* per-trial power spectra of the k trials of this sample count, divided by
\* k.  Stated for lists of sample counts that are all at least 1.
C1_EmittedMeanIsRunningMean ==
    (pc = "trial" /\ trial >= 2 /\ snapshot.trial = trial - 1 /\ NoEmptySampleCount)
        => snapshot.image = [i \in DOMAIN trialSum |-> FDiv(trialSum[i], FromInt(trial - 1))]

\* C2: at the start of trial 1 of every sample count the accumulator is 0 in
\* every cell.  Stated for lists of sample counts that are all at least 1.
C2_AccumulatorZeroAtFirstTrial ==
    (pc = "trial" /\ trial = 1 /\ j <= Len(nSamples) /\ NoEmptySampleCount)
        => \A i \in DOMAIN powerAccum : powerAccum[i] = Zero

\* C3: of the trials of the current sample count, those already past their
\* output step have emitted exactly one snapshot if t = 1 or t mod
\* trialStepOut = 0 and none otherwise; the others have emitted none.
C3_SnapshotSchedule ==
    pc # "start" =>
        \A t \in 1 .. nTrials :
            emitCount[t] = IF t < trial /\ (t = 1 \/ t % trialStepOut = 0) THEN 1 ELSE 0

C3_Witness ==
    /\ pc = "trial" /\ trial = 4 /\ nTrials = 3 /\ trialStepOut = 2
    /\ emitCount[1] = 1 /\ emitCount[2] = 1 /\ emitCount[3] = 0
    /\ snapshot.trial = 2 /\ snapshot.n = nSamples[j]

\* C4: after the transform and the power step of a trial with no points the
\* complex spectrum is 0 and the power spectrum is 0 in every cell.
C4_EmptyPointSetGivesZeroPower ==
    (pc = "accumulate" /\ Len(pts) = 0)
        => /\ \A i \in DOMAIN complexSpectrum : complexSpectrum[i] = <<0, 0>>
           /\ \A i \in DOMAIN powerSpectrum : powerSpectrum[i] = Zero

\* C10: what a trial adds to the accumulator is the power spectrum of that
\* trial's own points, whatever the buffers held before the trial.
C10_TrialAddsOwnPower == pc = "output" => lastAdded = FreshPower(pts)

C10_Witness ==
    /\ pc = "output" /\ trial >= 2 /\ snapshot.trial = trial - 1
    /\ Len(pts) > 0
    /\ snapshot.image # lastAdded
    /\ \E i \in DOMAIN lastAdded : lastAdded[i] # Zero /\ ~IsNaN(lastAdded[i])

----------------------------------------------------------------------------
\* Properties of the parallel_for (SpecTiles)

\* C7: every cell of the grid lies in exactly one tile that is pending or
\* has run, a cell is written only by the task of the tile it lies in, so
\* after the join every cell was written by exactly one task; the point set
\* is the one the parallel_for started with.
C7_OneWriterPerCell ==
    pc \in {"parallel", "joined"} =>
        /\ pts = ptsAtFork
        /\ \A row \in 0 .. (xRes - 1), col \in 0 .. (yRes - 1) :
              LET w == writers[row * xRes + col]
                  waiting == {t \in pending : <<row, col>> \in TileCells(t)}
              IN  /\ Len(w) + Cardinality(waiting) = 1
                  /\ \A k \in 1 .. Len(w) : <<row, col>> \in TileCells(w[k])
                  /\ pc = "joined" => Len(w) = 1

C7_Witness ==
    /\ pc = "joined" /\ xRes = 3 /\ Len(pts) > 0
    /\ Cardinality({writers[i][1] : i \in DOMAIN writers}) >= 4
    /\ \A i \in DOMAIN writers : Len(writers[i]) = 1

----------------------------------------------------------------------------
\* Properties of compute_radial_mean_powerspectrum (SpecRadial)

\* C5: on a square grid of even size R, once the cell loop is over, a cell
\* has contributed to bin d = floor(sqrt((R/2-c)^2 + (R/2-r)^2)) and to no
\* other bin if d <= R/2 - 1, and to no bin otherwise.
C5_ContributesIffFloorInRange ==
    (rpc = "divide" /\ xRes = yRes /\ xRes % 2 = 0) =>
        \A r \in 0 .. (yRes - 1), c \in 0 .. (xRes - 1) :
            LET d == Isqrt((xRes \div 2 - c) * (xRes \div 2 - c)
                           + (xRes \div 2 - r) * (xRes \div 2 - r))
            IN  binsOf[r * xRes + c] = IF d <= xRes \div 2 - 1 THEN {d} ELSE {}

\* the power spectrum has the same finite value in every cell
ConstantInput == \A i \in DOMAIN powerSpectrum : powerSpectrum[i] = powerSpectrum[0]

\* C6: on a square grid of even size whose power spectrum is v in every
\* cell, every bin holds v once all bins are divided.
C6_ConstantInputConstantBins ==
    (rpc = "divide" /\ ridx = xRes \div 2 /\ xRes = yRes /\ xRes % 2 = 0
       /\ ConstantInput /\ ~IsNaN(powerSpectrum[0]))
        => \A i \in 0 .. (xRes \div 2 - 1) : radialHistogram[i] = powerSpectrum[0]

C6_Witness ==
    /\ rpc = "divide" /\ ridx = 2 /\ xRes = 4 /\ yRes = 4
    /\ ConstantInput /\ powerSpectrum[0] = <<1, 2>>
    /\ radialHistogram[0] = <<1, 2>> /\ radialHistogram[1] = <<1, 2>>

\* C8: entered with a non-square grid, the reducer ends in exit(-2) with no
\* histogram allocated or filled and the table file never opened.
C8_NonSquareExits ==
    (xRes # yRes /\ rpc # "enter") =>
        /\ rpc = "exit" /\ exitCode = -2
        /\ radialHistogram = NoArray /\ histoCounter = NoArray
        /\ divisors = <<>>
        /\ fileOut = NoFile

C8_Witness == rpc = "exit" /\ xRes = 2 /\ yRes = 3 /\ exitCode = -2

\* C9: every division of a bin has a count of at least 1, and on a square
\* grid every bin is divided.
C9_NoZeroCountDivision ==
    /\ \A k \in 1 .. Len(divisors) : divisors[k] >= 1
    /\ (rpc = "done" /\ xRes = yRes) => Len(divisors) = xRes \div 2

C9_Witness ==
    /\ rpc = "done" /\ xRes = 4 /\ yRes = 4
    /\ Len(divisors) = 2 /\ divisors[2] >= 1

====
